---- MODULE Spec2Model ----
(***************************************************************************)
(* FramePickr-AI scoring backend: backend/app.py (startup, cascade          *)
(* provisioning, compression, the /score_and_save handler) and              *)
(* backend/model/scoring.py (detector bank and score composer).             *)
(*                                                                          *)
(* Three specifications share the module:                                   *)
(*   SpecDownload  download_cascade_if_missing, one loop step per action    *)
(*   SpecCompress  compress_image_bytes_if_needed, one loop step per action *)
(*   Spec          module start-up followed by a sequence of requests       *)
(* The step functions DlStep and CompressStep are the single translation of *)
(* the two helpers; Spec runs them to completion inside its own actions.    *)
(***************************************************************************)
EXTENDS Integers, Sequences, FiniteSets, TLC

VARIABLES
    dl,         \* frame of download_cascade_if_missing (SpecDownload)
    cs,         \* frame of compress_image_bytes_if_needed (SpecCompress)
    pc,         \* position of the process: start-up phases, then the handler
    disk,       \* MODEL_DIR: state of each required cascade file
    builtin,    \* cv2.data.haarcascades holds loadable cascade files
    gcs,        \* gcs_bucket is not None
    bootIdx,    \* index into REQUIRED_CASCADES of the running start-up loop
    candidates, \* cascade_path_candidates
    cascades,   \* the module-level dict cascades
    bootLoads,  \* CascadeClassifier constructions made by start-up, per key
    loadsNow,   \* cascades whose classifier the last action constructed
    files,      \* the request's uploads, (filename, contents) in upload order
    top_n,      \* the request's top_n
    results,    \* results (the dicts; top and saved refer to them by index)
    top,        \* top, as indices into results (the same dict objects)
    saved,      \* saved
    uploads,    \* calls made to upload_bytes_to_gcs
    saveIdx,    \* position of the step-3 loop in top
    raised      \* an exception left the handler

vars == <<dl, cs, pc, disk, builtin, gcs, bootIdx, candidates, cascades,
          bootLoads, loadsNow, files, top_n, results, top, saved, uploads,
          saveIdx, raised>>

mainVars == <<pc, disk, builtin, gcs, bootIdx, candidates, cascades,
              bootLoads, loadsNow, files, top_n, results, top, saved,
              uploads, saveIdx, raised>>

----------------------------------------------------------------------------
(* Bounds of the model.                                                     *)

MaxTries == 3
MaxFiles == 3
MaxTopN == 3

----------------------------------------------------------------------------
(* Helpers.                                                                 *)

Range(s) == {s[i] : i \in 1..Len(s)}

SeqsUpTo(S, n) == UNION {[1..k -> S] : k \in 1..n}

----------------------------------------------------------------------------
(* REQUIRED_CASCADES, in dict order.                                        *)

REQUIRED_CASCADES == <<"face", "eye", "smile">>

Keys == Range(REQUIRED_CASCADES)

(* A file of MODEL_DIR: absent, present with size 0, present and loadable,  *)
(* present with size > 0 but not a loadable cascade.                        *)
FileStates == {"absent", "empty", "valid", "corrupt"}

Exists(f) == f # "absent"

NonEmpty(f) == f \in {"valid", "corrupt"}

----------------------------------------------------------------------------
(* download_cascade_if_missing(filename, dest_dir, tries).                  *)
(*                                                                          *)
(* One attempt's outcome, as the environment decides it:                    *)
(*   ok_written       200, non-empty content, write_bytes succeeds          *)
(*   ok_open_fails    200, non-empty content, write_bytes raises on open    *)
(*   ok_write_fails   200, non-empty content, write_bytes raises after the  *)
(*                    file was created or truncated                         *)
(*   empty200         200 with empty content                                *)
(*   http_error       a status other than 200                               *)
(*   exception        requests.get raises                                   *)

Responses == {"ok_written", "ok_open_fails", "ok_write_fails",
              "empty200", "http_error", "exception"}

GotContent(r) == r \in {"ok_written", "ok_open_fails", "ok_write_fails"}

DlFrame(dest, tries) ==
    [pc |-> "start", dest |-> dest, dest0 |-> dest, tries |-> tries,
     attempt |-> 0, ret |-> "none", log |-> <<>>]

(* dest after write_bytes(resp.content) with outcome r.                     *)
WriteBytes(dest, r) ==
    CASE r = "ok_written" -> "valid"
      [] r = "ok_write_fails" -> "empty"
      [] OTHER -> dest

(* The early return taken on existence alone, without the size test.        *)
DlEnterMissingZeroSize(st) ==
    IF Exists(st.dest)
    THEN [st EXCEPT !.pc = "done", !.ret = "true"]
    ELSE [st EXCEPT !.pc = "loop", !.attempt = 1]

(* Lines 49-52: the early return on an existing file of non-zero size.      *)
DlEnter(st) ==
    IF NonEmpty(st.dest)
    THEN [st EXCEPT !.pc = "done", !.ret = "true"]
    ELSE [st EXCEPT !.pc = "loop", !.attempt = 1]

(* One iteration of `for attempt in range(1, tries + 1)` with response r,   *)
(* or the fall-through to `return False` once the range is exhausted.       *)
DlAttempt(st, r) ==
    IF st.attempt > st.tries
    THEN [st EXCEPT !.pc = "done", !.ret = "false"]
    ELSE IF r = "ok_written"
         THEN [st EXCEPT !.pc = "done", !.ret = "true",
                         !.dest = WriteBytes(st.dest, r),
                         !.log = Append(st.log, r)]
         ELSE [st EXCEPT !.attempt = st.attempt + 1,
                         !.dest = WriteBytes(st.dest, r),
                         !.log = Append(st.log, r)]

DlStep(st, r) ==
    CASE st.pc = "start" -> DlEnter(st)
      [] st.pc = "loop" -> DlAttempt(st, r)
      [] OTHER -> st

(* The whole call, the environment answering attempt i with rs[i].          *)
RECURSIVE DlRun(_, _)
DlRun(st, rs) ==
    IF st.pc = "done" THEN st
    ELSE DlRun(DlStep(st, IF st.attempt \in DOMAIN rs
                          THEN rs[st.attempt] ELSE "exception"), rs)

DlIdle == DlFrame("absent", 0)

----------------------------------------------------------------------------
(* Image bytes.  An upload is described by what the libraries make of it:   *)
(*   len     len(image_bytes)                                               *)
(*   opens   Image.open(...).convert("RGB") succeeds                        *)
(*   enc     per quality q, what img.save(format="JPEG", quality=q) does:   *)
(*           it raises, or it yields len bytes                              *)
(* A bytes value is an upload as received (q = 0) or its JPEG re-encoding   *)
(* at quality q.                                                            *)

DEFAULT_MAX_KB == 700
BYTES_PER_KB == 1024
START_QUALITY == 85
MIN_QUALITY == 30
QUALITY_STEP == 10

Qualities == {85, 75, 65, 55, 45, 35}

Original(img) == [src |-> img, q |-> 0]

Jpeg(img, q) == [src |-> img, q |-> q]

(* What img.save does at quality q; the inputs describe it on Qualities.    *)
EncAt(img, q) ==
    IF q \in DOMAIN img.enc THEN img.enc[q]
    ELSE [raises |-> FALSE, len |-> img.len]

BytesLen(b) == IF b.q = 0 THEN b.src.len ELSE EncAt(b.src, b.q).len

(* len(data) / 1024 <= max_kb; the division by 1024 is exact in floats.     *)
Fits(b, max_kb) == BytesLen(b) <= max_kb * BYTES_PER_KB

CompressFrame(image_bytes, max_kb) ==
    [pc |-> "start", image_bytes |-> image_bytes, max_kb |-> max_kb,
     quality |-> 0, last_data |-> image_bytes, ret |-> image_bytes,
     tried |-> <<>>, raised |-> FALSE]

(* Lines 182-187: the size test, Image.open, and the loop's initial values. *)
(* An exception of Image.open is caught by the function's except clause.    *)
CompressEnter(st) ==
    IF Fits(st.image_bytes, st.max_kb)
    THEN [st EXCEPT !.pc = "done", !.ret = st.image_bytes]
    ELSE IF ~st.image_bytes.src.opens
         THEN [st EXCEPT !.pc = "done", !.ret = st.image_bytes]
         ELSE [st EXCEPT !.pc = "loop", !.quality = START_QUALITY,
                         !.last_data = st.image_bytes]

(* The loop step without the function's except clause: an exception of     *)
(* img.save leaves the function.                                            *)
CompressIterNoCatch(st) ==
    IF st.quality < MIN_QUALITY
    THEN [st EXCEPT !.pc = "done", !.ret = st.last_data]
    ELSE LET e == EncAt(st.image_bytes.src, st.quality)
             data == Jpeg(st.image_bytes.src, st.quality)
             t == Append(st.tried, st.quality)
         IN  IF e.raises
             THEN [st EXCEPT !.pc = "done", !.raised = TRUE, !.tried = t]
             ELSE IF Fits(data, st.max_kb)
                  THEN [st EXCEPT !.pc = "done", !.ret = data,
                                  !.last_data = data, !.tried = t]
                  ELSE [st EXCEPT !.quality = st.quality - QUALITY_STEP,
                                  !.last_data = data, !.tried = t]

(* One test of `while quality >= 30` and, when it passes, one loop body;    *)
(* an exception of img.save is caught and the input returned.               *)
CompressIter(st) ==
    IF st.quality < MIN_QUALITY
    THEN [st EXCEPT !.pc = "done", !.ret = st.last_data]
    ELSE LET e == EncAt(st.image_bytes.src, st.quality)
             data == Jpeg(st.image_bytes.src, st.quality)
             t == Append(st.tried, st.quality)
         IN  IF e.raises
             THEN [st EXCEPT !.pc = "done", !.ret = st.image_bytes,
                             !.tried = t]
             ELSE IF Fits(data, st.max_kb)
                  THEN [st EXCEPT !.pc = "done", !.ret = data,
                                  !.last_data = data, !.tried = t]
                  ELSE [st EXCEPT !.quality = st.quality - QUALITY_STEP,
                                  !.last_data = data, !.tried = t]

CompressStep(st) ==
    CASE st.pc = "start" -> CompressEnter(st)
      [] st.pc = "loop" -> CompressIter(st)
      [] OTHER -> st

RECURSIVE CompressRun(_)
CompressRun(st) ==
    IF st.pc = "done" THEN st ELSE CompressRun(CompressStep(st))

compress_image_bytes_if_needed(image_bytes, max_kb) ==
    CompressRun(CompressFrame(image_bytes, max_kb)).ret

(* Inputs of SpecCompress: lengths on both sides of the 700 KB limit, and   *)
(* every way the six encodings can fit, not fit, or raise.                  *)
FIT_LEN == DEFAULT_MAX_KB * BYTES_PER_KB

OVER_LEN == FIT_LEN + 1

EncOutcomes == {[raises |-> TRUE, len |-> 0],
                [raises |-> FALSE, len |-> FIT_LEN],
                [raises |-> FALSE, len |-> OVER_LEN]}

CompressInputs ==
    {[len |-> l, opens |-> o, enc |-> e] :
        l \in {0, FIT_LEN, OVER_LEN}, o \in BOOLEAN,
        e \in [Qualities -> EncOutcomes]}

CompressIdle ==
    CompressFrame(Original([len |-> 0, opens |-> FALSE,
                            enc |-> [q \in Qualities |->
                                       [raises |-> TRUE, len |-> 0]]]),
                  DEFAULT_MAX_KB)

----------------------------------------------------------------------------
(* model/scoring.py.  Scores are kept in thousandths (the code rounds to    *)
(* three places), so the weights are the source's weights times 1000.       *)

SHARPNESS_WEIGHT == 1000
BRIGHTNESS_WEIGHT == 5
FACES_WEIGHT == 1000
EYES_OPEN_WEIGHT == 1500
SMILE_WEIGHT == 2000
SHARP_SMOOTHING == 50

(* What cv2 makes of a bytes value: whether imdecode yields an image, and   *)
(* for a decoded image its Laplacian variance, its mean gray level and, per *)
(* face the face cascade finds, the eye and smile detections in its region. *)
Decodes(b) == IF b.q = 0 THEN b.src.decodes ELSE TRUE

Pixels(b) == IF b.q = 0 THEN b.src.pixels ELSE b.src.jpegPixels

(* _load_cascade(path) for a file of the model directory.                   *)
LoadCascade(f) == [raises |-> f # "valid"]

RECURSIVE SumField(_, _, _)
SumField(faces, i, field) ==
    IF i > Len(faces) THEN 0
    ELSE faces[i][field] + SumField(faces, i + 1, field)

(* A detector bank that constructs all three classifiers on every call.     *)
DetectReloadingFace(px, model_dir) ==
    [raises |-> LoadCascade(model_dir["eye"]).raises
                  \/ LoadCascade(model_dir["smile"]).raises,
     loads |-> {"face", "eye", "smile"},
     faces |-> px.faces,
     eyes_open |-> SumField(px.faces, 1, "eyes"),
     smiles |-> SumField(px.faces, 1, "smiles")]

(* detect_faces_and_features: the eye and smile cascades are loaded on      *)
(* every call, before the loop over the faces.                              *)
detect_faces_and_features(px, model_dir) ==
    LET eye == LoadCascade(model_dir["eye"])
        smile == LoadCascade(model_dir["smile"])
    IN  IF eye.raises
        THEN [raises |-> TRUE, loads |-> {"eye"},
              faces |-> <<>>, eyes_open |-> 0, smiles |-> 0]
        ELSE IF smile.raises
        THEN [raises |-> TRUE, loads |-> {"eye", "smile"},
              faces |-> <<>>, eyes_open |-> 0, smiles |-> 0]
        ELSE [raises |-> FALSE, loads |-> {"eye", "smile"},
              faces |-> px.faces,
              eyes_open |-> SumField(px.faces, 1, "eyes"),
              smiles |-> SumField(px.faces, 1, "smiles")]

(* 1000 / (1 + exp(-0.02 * (brightness - 100))) at the gray levels used.    *)
NormBrightness(brightness) ==
    CASE brightness = 0 -> 119
      [] brightness = 100 -> 500
      [] brightness = 255 -> 957
      [] OTHER -> 500

NormSharp(sharpness) == (1000 * sharpness) \div (sharpness + SHARP_SMOOTHING)

ErrorDict(error) ==
    [kind |-> "dict", error |-> error, hasScore |-> FALSE, score |-> 0,
     sharpness |-> 0, brightness |-> 0, faces |-> 0, eyes_open |-> 0,
     smiles |-> 0, loads |-> {}]

Raise(loads) == [ErrorDict("none") EXCEPT !.kind = "raise", !.loads = loads]

(* Lines 86-117 of compute_score: the measures, the detector bank and the   *)
(* weighted sum of a decoded image.                                         *)
ScoreDecoded(image_bytes, model_dir) ==
    LET px == Pixels(image_bytes)
        det == detect_faces_and_features(px, model_dir)
        score == (SHARPNESS_WEIGHT * NormSharp(px.sharpness)) \div 1000
                 + (BRIGHTNESS_WEIGHT * NormBrightness(px.brightness) * 100)
                       \div 1000
                 + FACES_WEIGHT * Len(det.faces)
                 + (EYES_OPEN_WEIGHT * det.eyes_open) \div 2
                 + SMILE_WEIGHT * det.smiles
    IN  IF det.raises
        THEN Raise(det.loads)
        ELSE [kind |-> "dict", error |-> "none", hasScore |-> TRUE,
              score |-> score,
              sharpness |-> px.sharpness, brightness |-> px.brightness,
              faces |-> Len(det.faces), eyes_open |-> det.eyes_open,
              smiles |-> det.smiles, loads |-> det.loads]

(* compute_score without the `img is None` test: cvtColor raises on None.   *)
ComputeScoreNoDecodeCheck(image_bytes, model_dir) ==
    IF ~Decodes(image_bytes) THEN Raise({})
    ELSE ScoreDecoded(image_bytes, model_dir)

(* compute_score(image_bytes, face_cascade) with the default model_dir,     *)
(* which is the directory app.py calls MODEL_DIR.                           *)
compute_score(image_bytes, model_dir) ==
    IF ~Decodes(image_bytes)
    THEN ErrorDict("cannot_decode_image")
    ELSE ScoreDecoded(image_bytes, model_dir)

----------------------------------------------------------------------------
(* app.py helpers around scoring.                                           *)

(* Scoring without the try/except: an exception reaches the handler.        *)
SafeComputeScoreNoCatch(image_bytes, model_dir) ==
    compute_score(image_bytes, model_dir)

(* safe_compute_score: any exception becomes a scoring_failed dict.         *)
safe_compute_score(image_bytes, model_dir) ==
    LET r == compute_score(image_bytes, model_dir)
    IN  IF r.kind = "raise"
        THEN [ErrorDict("scoring_failed") EXCEPT !.loads = r.loads]
        ELSE r

(* os.path.splitext(filename)[1] or ".jpg" for the filenames of the model.  *)
Filenames == {"a.png", "b"}

Ext(filename) == IF filename = "a.png" THEN ".png" ELSE ".jpg"

----------------------------------------------------------------------------
(* The uploads of the model: an undecodable file, a small photo without     *)
(* faces, and a photo over the 700 KB limit with one face whose quality-85  *)
(* encoding is still too large and whose quality-75 encoding fits.          *)

AllRaise == [q \in Qualities |-> [raises |-> TRUE, len |-> 0]]

NoPixels == [sharpness |-> 0, brightness |-> 0, faces |-> <<>>]

ImgU == [id |-> "U", len |-> 2048, opens |-> FALSE, enc |-> AllRaise,
         decodes |-> FALSE, pixels |-> NoPixels, jpegPixels |-> NoPixels]

ImgA == [id |-> "A", len |-> 204800, opens |-> TRUE,
         enc |-> [q \in Qualities |-> [raises |-> FALSE, len |-> 102400]],
         decodes |-> TRUE,
         pixels |-> [sharpness |-> 50, brightness |-> 100, faces |-> <<>>],
         jpegPixels |-> [sharpness |-> 40, brightness |-> 100, faces |-> <<>>]]

ImgL == [id |-> "L", len |-> 921600, opens |-> TRUE,
         enc |-> [q \in Qualities |->
                    [raises |-> FALSE,
                     len |-> IF q = 85 THEN OVER_LEN ELSE FIT_LEN]],
         decodes |-> TRUE,
         pixels |-> [sharpness |-> 150, brightness |-> 100,
                     faces |-> <<[eyes |-> 2, smiles |-> 1]>>],
         jpegPixels |-> [sharpness |-> 100, brightness |-> 100,
                         faces |-> <<[eyes |-> 2, smiles |-> 1]>>]]

Images == {ImgU, ImgA, ImgL}

Uploads == {[filename |-> n, contents |-> Original(i)] :
               n \in Filenames, i \in Images}

----------------------------------------------------------------------------
(* Module start-up of app.py.                                               *)

DEFAULT_TRIES == 3

(* The process starts with each cascade file either missing or in place,    *)
(* with or without the cv2 builtin directory, with or without a bucket.  A  *)
(* file that is present but does not load arises during start-up, as the    *)
(* empty file a failed write leaves behind.                                 *)
Init ==
    /\ dl = DlIdle
    /\ cs = CompressIdle
    /\ pc = "download"
    /\ disk \in [Keys -> {"absent", "valid"}]
    /\ builtin \in BOOLEAN
    /\ gcs \in BOOLEAN
    /\ bootIdx = 1
    /\ candidates = <<>>
    /\ cascades = [k \in Keys |-> "unset"]
    /\ bootLoads = [k \in Keys |-> 0]
    /\ loadsNow = {}
    /\ files = <<>>
    /\ top_n = 0
    /\ results = <<>>
    /\ top = <<>>
    /\ saved = <<>>
    /\ uploads = <<>>
    /\ saveIdx = 0
    /\ raised = FALSE

request == <<files, top_n, results, top, saved, uploads, saveIdx, raised>>

(* Lines 73-75: one iteration of the loop that ensures the cascade files;   *)
(* a failed download only prints a warning.                                 *)
BootDownload ==
    /\ pc = "download"
    /\ LET key == REQUIRED_CASCADES[bootIdx]
       IN  \E rs \in [1..DEFAULT_TRIES -> Responses] :
              disk' = [disk EXCEPT
                         ![key] = DlRun(DlFrame(disk[key], DEFAULT_TRIES), rs).dest]
    /\ IF bootIdx < Len(REQUIRED_CASCADES)
       THEN bootIdx' = bootIdx + 1 /\ pc' = pc
       ELSE bootIdx' = 0 /\ pc' = "candidates"
    /\ loadsNow' = {}
    /\ UNCHANGED <<dl, cs, builtin, gcs, candidates, cascades, bootLoads, request>>

(* Lines 80-94: the model-directory paths that exist, then the cv2 builtin  *)
(* paths when cv2.data.haarcascades is available.                           *)
RECURSIVE ExistingPaths(_, _)
ExistingPaths(d, i) ==
    IF i > Len(REQUIRED_CASCADES) THEN <<>>
    ELSE LET key == REQUIRED_CASCADES[i]
         IN  (IF Exists(d[key]) THEN <<[dir |-> "model", key |-> key]>> ELSE <<>>)
             \o ExistingPaths(d, i + 1)

BuiltinPaths ==
    [i \in 1..Len(REQUIRED_CASCADES) |-> [dir |-> "builtin", key |-> REQUIRED_CASCADES[i]]]

BootCandidates ==
    /\ pc = "candidates"
    /\ candidates' = ExistingPaths(disk, 1) \o (IF builtin THEN BuiltinPaths ELSE <<>>)
    /\ pc' = "load"
    /\ bootIdx' = 1
    /\ loadsNow' = {}
    /\ UNCHANGED <<dl, cs, disk, builtin, gcs, cascades, bootLoads, request>>

(* cv2.CascadeClassifier(candidate) is not empty.                           *)
Loadable(c, d) == IF c.dir = "model" THEN d[c.key] = "valid" ELSE TRUE

(* Lines 101-113 for one key: the candidates of that file name are tried in *)
(* order until one loads.  Returns what was loaded and how many classifiers *)
(* were constructed.                                                        *)
RECURSIVE TryCandidates(_, _, _, _)
TryCandidates(key, cands, d, i) ==
    IF i > Len(cands) THEN [loaded |-> "none", constructed |-> 0]
    ELSE IF cands[i].key # key THEN TryCandidates(key, cands, d, i + 1)
    ELSE IF Loadable(cands[i], d) THEN [loaded |-> "loaded", constructed |-> 1]
    ELSE LET rest == TryCandidates(key, cands, d, i + 1)
         IN  [rest EXCEPT !.constructed = rest.constructed + 1]

(* Lines 98-116: one iteration of the loop that fills `cascades`.           *)
BootLoad ==
    /\ pc = "load"
    /\ LET key == REQUIRED_CASCADES[bootIdx]
           r == TryCandidates(key, candidates, disk, 1)
       IN  /\ cascades' = [cascades EXCEPT ![key] = r.loaded]
           /\ bootLoads' = [bootLoads EXCEPT ![key] = r.constructed]
           /\ loadsNow' = IF r.constructed > 0 THEN {key} ELSE {}
    /\ IF bootIdx < Len(REQUIRED_CASCADES)
       THEN bootIdx' = bootIdx + 1 /\ pc' = pc
       ELSE bootIdx' = 0 /\ pc' = "check"
    /\ UNCHANGED <<dl, cs, disk, builtin, gcs, candidates, request>>

(* Lines 119-120: the only start-up check; the rest of the module runs and  *)
(* the application starts serving.                                          *)
StartupFatal(c) == c["face"] = "none"

BootCheck ==
    /\ pc = "check"
    /\ pc' = IF StartupFatal(cascades) THEN "crashed" ELSE "idle"
    /\ loadsNow' = {}
    /\ UNCHANGED <<dl, cs, disk, builtin, gcs, bootIdx, candidates, cascades,
                   bootLoads, request>>

----------------------------------------------------------------------------
(* POST /score_and_save.                                                    *)

boot == <<disk, builtin, gcs, bootIdx, candidates, cascades, bootLoads>>

(* The handler is entered with the uploaded files and top_n (ge=1).         *)
Request ==
    /\ pc = "idle"
    /\ \E fs \in SeqsUpTo(Uploads, MaxFiles), n \in 1..MaxTopN :
          /\ files' = fs
          /\ top_n' = n
    /\ pc' = "score"
    /\ results' = <<>>
    /\ top' = <<>>
    /\ saved' = <<>>
    /\ uploads' = <<>>
    /\ saveIdx' = 0
    /\ raised' = FALSE
    /\ loadsNow' = {}
    /\ UNCHANGED <<dl, cs, boot>>

(* Scoring that keeps the first file's buffer for the whole request.        *)
ScoreOfStaleBuffer(f) ==
    safe_compute_score(
        compress_image_bytes_if_needed(files[1].contents, DEFAULT_MAX_KB), disk)

(* Lines 232-233: the bytes that are scored and their score.                *)
ScoreOf(f) ==
    safe_compute_score(
        compress_image_bytes_if_needed(f.contents, DEFAULT_MAX_KB), disk)

(* The dict appended to results: the score dict plus "filename"; "url" is   *)
(* set later, and only on the dicts that reach top.                         *)
ResultDict(res, filename) ==
    [filename |-> filename, error |-> res.error, hasScore |-> res.hasScore,
     score |-> res.score, sharpness |-> res.sharpness,
     brightness |-> res.brightness, faces |-> res.faces,
     eyes_open |-> res.eyes_open, smiles |-> res.smiles,
     hasUrl |-> FALSE, url |-> "None"]

(* Lines 229-236: one iteration of step 1.                                  *)
ScoreFile ==
    /\ pc = "score"
    /\ LET f == files[Len(results) + 1]
           res == ScoreOf(f)
       IN  /\ loadsNow' = res.loads
           /\ IF res.kind = "raise"
              THEN /\ raised' = TRUE
                   /\ pc' = "respond"
                   /\ results' = results
              ELSE /\ raised' = raised
                   /\ results' = Append(results, ResultDict(res, f.filename))
                   /\ pc' = IF Len(results) + 1 = Len(files) THEN "rank" ELSE pc
    /\ UNCHANGED <<dl, cs, boot, files, top_n, top, saved, uploads, saveIdx>>

(* Insertion of x in front of the elements whose score is at most x's: a    *)
(* descending sort that reverses the upload order of equal scores.          *)
RECURSIVE InsertDescTiesFirst(_, _, _)
InsertDescTiesFirst(sorted, x, rs) ==
    IF sorted = <<>> THEN <<x>>
    ELSE IF rs[Head(sorted)].score > rs[x].score
         THEN <<Head(sorted)>> \o InsertDescTiesFirst(Tail(sorted), x, rs)
         ELSE <<x>> \o sorted

(* sorted(scored, key=score, reverse=True): a stable sort, so elements with *)
(* equal scores keep their order.  Insertion of x behind every element      *)
(* whose score is at least x's.                                             *)
RECURSIVE InsertDesc(_, _, _)
InsertDesc(sorted, x, rs) ==
    IF sorted = <<>> THEN <<x>>
    ELSE IF rs[Head(sorted)].score >= rs[x].score
         THEN <<Head(sorted)>> \o InsertDesc(Tail(sorted), x, rs)
         ELSE <<x>> \o sorted

RECURSIVE SortDesc(_, _, _)
SortDesc(scored, n, rs) ==
    IF n = 0 THEN <<>>
    ELSE InsertDesc(SortDesc(scored, n - 1, rs), scored[n], rs)

(* Line 239: the results that carry a score, as indices into results.       *)
Scored(rs) == SelectSeq([i \in 1..Len(rs) |-> i], LAMBDA i : rs[i].hasScore)

(* Lines 240-241.                                                           *)
sorted_results(rs) == SortDesc(Scored(rs), Len(Scored(rs)), rs)

FirstN(s, n) == SubSeq(s, 1, IF n < Len(s) THEN n ELSE Len(s))

(* Lines 238-241: step 2.                                                   *)
Rank ==
    /\ pc = "rank"
    /\ top' = FirstN(sorted_results(results), top_n)
    /\ saveIdx' = 1
    /\ pc' = IF top' = <<>> THEN "respond" ELSE "save"
    /\ loadsNow' = {}
    /\ UNCHANGED <<dl, cs, boot, files, top_n, results, saved, uploads, raised>>

(* Line 246: the bytes of the first entry of file_bytes_list whose name is  *)
(* the item's filename.                                                     *)
Match(fs, filename) ==
    LET I == {i \in 1..Len(fs) : fs[i].filename = filename}
    IN  fs[CHOOSE i \in I : \A j \in I : i <= j].contents

(* Lines 245-266: one iteration of step 3.  uuid4 is a fresh name; when a   *)
(* bucket is configured the upload succeeds or raises.                      *)
SaveItem ==
    /\ pc = "save"
    /\ LET idx == top[saveIdx]
           item == results[idx]
           match == Match(files, item.filename)
           unique_name == [uuid |-> saveIdx, ext |-> Ext(item.filename)]
       IN  \E ok \in (IF gcs THEN BOOLEAN ELSE {FALSE}) :
              /\ uploads' = IF gcs
                            THEN Append(uploads, [bytes_data |-> match,
                                                  dest_name |-> unique_name,
                                                  item |-> idx, stored |-> ok])
                            ELSE uploads
              /\ results' = [results EXCEPT ![idx].hasUrl = TRUE,
                                            ![idx].url = IF ok THEN "url" ELSE "None"]
              /\ saved' = Append(saved, [filename |-> item.filename,
                                         saved_as |-> IF ok THEN "name" ELSE "None",
                                         url |-> IF ok THEN "url" ELSE "None",
                                         score |-> item.score,
                                         item |-> idx])
    /\ saveIdx' = saveIdx + 1
    /\ pc' = IF saveIdx = Len(top) THEN "respond" ELSE pc
    /\ loadsNow' = {}
    /\ UNCHANGED <<dl, cs, boot, files, top_n, top, raised>>

(* Line 268: the response {count, top, all, saved} is what the state holds  *)
(* at pc = "respond"; the handler's locals die with the call.               *)
Respond ==
    /\ pc = "respond"
    /\ pc' = "idle"
    /\ files' = <<>>
    /\ top_n' = 0
    /\ results' = <<>>
    /\ top' = <<>>
    /\ saved' = <<>>
    /\ uploads' = <<>>
    /\ saveIdx' = 0
    /\ raised' = FALSE
    /\ loadsNow' = {}
    /\ UNCHANGED <<dl, cs, boot>>

Next ==
    \/ BootDownload
    \/ BootCandidates
    \/ BootLoad
    \/ BootCheck
    \/ Request
    \/ ScoreFile
    \/ Rank
    \/ SaveItem
    \/ Respond

Spec == Init /\ [][Next]_vars

----------------------------------------------------------------------------
(* The variables of Spec while one of the helper specifications runs.       *)

MainOff ==
    /\ pc = "off"
    /\ disk = [k \in Keys |-> "absent"]
    /\ builtin = FALSE
    /\ gcs = FALSE
    /\ bootIdx = 0
    /\ candidates = <<>>
    /\ cascades = [k \in Keys |-> "unset"]
    /\ bootLoads = [k \in Keys |-> 0]
    /\ loadsNow = {}
    /\ files = <<>>
    /\ top_n = 0
    /\ results = <<>>
    /\ top = <<>>
    /\ saved = <<>>
    /\ uploads = <<>>
    /\ saveIdx = 0
    /\ raised = FALSE

----------------------------------------------------------------------------
(* SpecDownload: one call of download_cascade_if_missing.                   *)

InitDownload ==
    /\ dl \in {DlFrame(d, t) : d \in FileStates, t \in 0..MaxTries}
    /\ cs = CompressIdle
    /\ MainOff

DlCheckExisting ==
    /\ dl.pc = "start"
    /\ dl' = DlStep(dl, "exception")
    /\ UNCHANGED <<cs, mainVars>>

DlTry ==
    /\ dl.pc = "loop"
    /\ dl.attempt <= dl.tries
    /\ \E r \in Responses : dl' = DlStep(dl, r)
    /\ UNCHANGED <<cs, mainVars>>

DlGiveUp ==
    /\ dl.pc = "loop"
    /\ dl.attempt > dl.tries
    /\ dl' = DlStep(dl, "exception")
    /\ UNCHANGED <<cs, mainVars>>

NextDownload == DlCheckExisting \/ DlTry \/ DlGiveUp

SpecDownload == InitDownload /\ [][NextDownload]_vars

----------------------------------------------------------------------------
(* SpecCompress: one call of compress_image_bytes_if_needed.                *)

InitCompress ==
    /\ cs \in {CompressFrame(Original(i), DEFAULT_MAX_KB) : i \in CompressInputs}
    /\ dl = DlIdle
    /\ MainOff

CompressStart ==
    /\ cs.pc = "start"
    /\ cs' = CompressStep(cs)
    /\ UNCHANGED <<dl, mainVars>>

CompressLoop ==
    /\ cs.pc = "loop"
    /\ cs' = CompressStep(cs)
    /\ UNCHANGED <<dl, mainVars>>

NextCompress == CompressStart \/ CompressLoop

SpecCompress == InitCompress /\ [][NextCompress]_vars

----------------------------------------------------------------------------
(* Properties of download_cascade_if_missing (SpecDownload).                *)

DlDone == dl.pc = "done"

NoneWritten(log) == \A i \in 1..Len(log) : log[i] # "ok_written"

----------------------------------------------------------------------------
(* Properties of compress_image_bytes_if_needed (SpecCompress).             *)

ClaimedQualities == <<85, 75, 65, 55, 45, 35>>

IsPrefix(s, t) == Len(s) <= Len(t) /\ \A i \in 1..Len(s) : s[i] = t[i]

(* Index of the first claimed quality at which the encoder raises or the    *)
(* encoding fits; 0 when there is none.                                     *)
FirstDecisive(img, max_kb) ==
    LET D == {k \in 1..Len(ClaimedQualities) :
                 \/ EncAt(img, ClaimedQualities[k]).raises
                 \/ EncAt(img, ClaimedQualities[k]).len <= max_kb * 1024}
    IN  IF D = {} THEN 0 ELSE CHOOSE k \in D : \A j \in D : k <= j

(* C10: the call terminates and never raises.  Input of at most max_kb      *)
(* kilobytes is returned unchanged.  Larger input is re-encoded at          *)
(* qualities 85, 75, ..., 35, at most six attempts, and the result is the   *)
(* first encoding that fits, else the last (quality 35) encoding.  If       *)
(* opening or any encoding raises the original bytes are returned.          *)
C10_Compress ==
    LET b == cs.image_bytes
        img == b.src
        k == FirstDecisive(img, cs.max_kb)
    IN  /\ cs.pc = "done" \/ ENABLED NextCompress
        /\ ~cs.raised
        /\ IsPrefix(cs.tried, ClaimedQualities)
        /\ cs.pc = "done" =>
             IF img.len <= cs.max_kb * 1024
             THEN cs.ret = b /\ cs.tried = <<>>
             ELSE IF ~img.opens
             THEN cs.ret = b /\ cs.tried = <<>>
             ELSE IF k = 0
             THEN /\ cs.ret = Jpeg(img, 35)
                  /\ cs.tried = ClaimedQualities
             ELSE /\ cs.tried = SubSeq(ClaimedQualities, 1, k)
                  /\ cs.ret = IF EncAt(img, ClaimedQualities[k]).raises
                              THEN b ELSE Jpeg(img, ClaimedQualities[k])

(* C10 witness: an oversized input none of whose six encodings fits; the    *)
(* quality-35 encoding is returned although it is still too large.          *)
C10_Witness ==
    /\ cs.pc = "done"
    /\ Len(cs.tried) = 6
    /\ cs.ret = Jpeg(cs.image_bytes.src, 35)
    /\ BytesLen(cs.ret) > cs.max_kb * 1024

----------------------------------------------------------------------------
(* Properties of start-up and of the handler (Spec).                        *)

Serving == pc \in {"idle", "score", "rank", "save", "respond"}

(* top has been computed by step 2.                                         *)
Ranked == pc = "save" \/ (pc = "respond" /\ ~raised)

Responding == pc = "respond"

ScoredIdx == {i \in 1..Len(results) : results[i].hasScore}

Min(a, b) == IF a < b THEN a ELSE b

(* The bytes of file i that are handed to the scorer.                       *)
ScoringBytes(i) == compress_image_bytes_if_needed(files[i].contents, 700)

(* The score fields of a dict, without filename and url.                    *)
Breakdown(r) ==
    [error |-> r.error, hasScore |-> r.hasScore, score |-> r.score,
     sharpness |-> r.sharpness, brightness |-> r.brightness,
     faces |-> r.faces, eyes_open |-> r.eyes_open, smiles |-> r.smiles]

(* C1: with N scored results and 1 <= top_n <= N, top has exactly top_n     *)
(* elements, is sorted by score descending, holds only scored results of    *)
(* this request (each at most once), and results with equal scores appear   *)
(* in upload order.                                                         *)
C1_Ranking ==
    Ranked =>
        /\ top_n <= Cardinality(ScoredIdx) => Len(top) = top_n
        /\ \A a \in 1..Len(top) : top[a] \in ScoredIdx
        /\ \A a, b \in 1..Len(top) :
              a < b =>
                 /\ top[a] # top[b]
                 /\ results[top[a]].score >= results[top[b]].score
                 /\ results[top[a]].score = results[top[b]].score
                       => top[a] < top[b]

(* C1 witness: three scored results, the first and the last tied on the     *)
(* lowest score, top_n = 3; the tie is ranked in upload order behind the    *)
(* higher score.                                                            *)
C1_Witness ==
    /\ Responding /\ ~raised
    /\ Cardinality(ScoredIdx) = 3
    /\ top = <<2, 1, 3>>
    /\ results[1].score = results[3].score
    /\ results[1].filename # results[3].filename

(* C2: whatever subset of the M files fails to decode or raises in scoring, *)
(* the handler does not raise, every file is processed, `all` has exactly M *)
(* entries, one per file in upload order, count = M, and the ranked list    *)
(* has min(top_n, number scored) entries.                                   *)
C2_FailureIsolation ==
    /\ ~raised
    /\ Serving => Len(results) <= Len(files)
    /\ pc \in {"rank", "save", "respond"} =>
          /\ Len(results) = Len(files)
          /\ \A i \in 1..Len(files) : results[i].filename = files[i].filename
    /\ Responding => Len(top) = Min(top_n, Cardinality(ScoredIdx))

(* C2 witness: a response for three files of which the first could not be   *)
(* decoded and the second raised inside scoring.                            *)
C2_Witness ==
    /\ Responding
    /\ Len(files) = 3
    /\ Len(results) = 3
    /\ results[1].error = "cannot_decode_image"
    /\ results[2].error = "scoring_failed"

(* C3: a file whose scoring bytes cv2 cannot decode yields the error dict   *)
(* cannot_decode_image without a score; that dict is in `all` with its      *)
(* filename, and it is neither in top nor the item of any saved entry.      *)
C3_DecodeError ==
    \A i \in 1..Len(results) :
        ~Decodes(ScoringBytes(i)) =>
            /\ results[i].error = "cannot_decode_image"
            /\ ~results[i].hasScore
            /\ results[i].filename = files[i].filename
            /\ ~results[i].hasUrl
            /\ \A a \in 1..Len(top) : top[a] # i
            /\ \A a \in 1..Len(saved) : saved[a].item # i

(* C3 witness: a response whose first file could not be decoded while a     *)
(* later file of the same name was ranked and saved.                        *)
C3_Witness ==
    /\ Responding
    /\ Len(results) >= 2
    /\ results[1].error = "cannot_decode_image"
    /\ results[2].filename = results[1].filename
    /\ top # <<>>
    /\ Len(saved) = Len(top)

(* C4 as stated: the process never serves scoring requests while one of the *)
(* three required cascades is not loaded.                                   *)
C4_SetupFatal ==
    Serving => \A k \in Keys : cascades[k] = "loaded"

JustScored == pc \in {"score", "rank"} /\ Len(results) >= 1

C6_PersistOwnBytes ==
    /\ \A a \in 1..Len(uploads) :
          uploads[a].bytes_data = files[uploads[a].item].contents
    /\ \A a, b \in 1..Len(uploads) :
          a # b => uploads[a].dest_name # uploads[b].dest_name

C8_ZeroFaces ==
    \A i \in 1..Len(results) :
        LET b == ScoringBytes(i)
            det == detect_faces_and_features(Pixels(b), disk)
        IN  (Decodes(b) /\ Pixels(b).faces = <<>>) =>
               /\ ~det.raises
               /\ Len(det.faces) = 0 /\ det.eyes_open = 0 /\ det.smiles = 0
               /\ results[i].error = "none"
               /\ results[i].faces = 0
               /\ results[i].eyes_open = 0
               /\ results[i].smiles = 0

====
